---- MODULE Spec2Model ----
(***************************************************************************)
(* A model of mozbp.py: the credential envelope codec (PKCS7pad,           *)
(* PKCS7unpad, encodeLoginData, decodeLoginData), the master key retrieval *)
(* (decrypt3DES, getKey, askpass) and the credential store mutation        *)
(* (exportLogins, getLogin, addNewLogin, delNewLogin).                     *)
(*                                                                         *)
(* Byte strings are sequences of 0..255, text strings are sequences of     *)
(* code points.  The library primitives the program calls (base64, DER,    *)
(* SHA-1/HMAC, 3DES-CBC) are modelled by small stand-ins that keep their   *)
(* contracts: base64 and DER are modelled at the byte level, the hash is   *)
(* a deterministic 20-byte digest, the cipher is an invertible CBC chain   *)
(* over 8-byte blocks.                                                     *)
(***************************************************************************)
EXTENDS Integers, Sequences, FiniteSets, TLC

(***************************************************************************)
(* Results of calls that may raise: ok, a value, and the exception name.   *)
(***************************************************************************)
Ok(v) == [ok |-> TRUE, val |-> v, err |-> ""]
Err(e) == [ok |-> FALSE, val |-> <<>>, err |-> e]

Max(a, b) == IF a >= b THEN a ELSE b
Min(a, b) == IF a <= b THEN a ELSE b

\* the byte string n * [x]
Rep(x, n) == [i \in 1..n |-> x]

\* Python's b[:n] and b[n:] for 0 <= n
Take(b, n) == SubSeq(b, 1, Min(n, Len(b)))
Drop(b, n) == SubSeq(b, n + 1, Len(b))

RECURSIVE Sum(_)
Sum(b) == IF b = <<>> THEN 0 ELSE Head(b) + Sum(Tail(b))

(***************************************************************************)
(* Program constants.                                                      *)
(***************************************************************************)
\* src/mozbp.py:34
MAGIC1 == <<248, 0, 0, 0, 0, 0, 0, 0, 0, 0, 0, 0, 0, 0, 0, 1>>
\* src/mozbp.py:35
MAGIC2 == <<1, 2, 840, 113549, 3, 7>>
\* b"password-check\x02\x02", src/mozbp.py:64
PasswordCheck == <<112, 97, 115, 115, 119, 111, 114, 100, 45, 99, 104, 101, 99, 107, 2, 2>>
\* the block size of the padding scheme and of the cipher, src/mozbp.py:82
BlockSize == 8
\* the length of the master key, src/mozbp.py:78
KeyLen == 24
\* the length of a digest and of the padded entry salt, src/mozbp.py:92
DigestLen == 20

(***************************************************************************)
(* str.encode() and bytes.decode(): UTF-8 for code points below 2048.      *)
(***************************************************************************)
RECURSIVE encode(_)
encode(s) ==
  IF s = <<>> THEN <<>>
  ELSE LET c == Head(s) IN
       (IF c < 128 THEN <<c>> ELSE <<192 + (c \div 64), 128 + (c % 64)>>)
         \o encode(Tail(s))

RECURSIVE decode(_)
decode(b) ==
  IF b = <<>> THEN Ok(<<>>)
  ELSE LET h == Head(b)
           \* the code point c before the decoding r of what follows it
           Then(c, r) == IF r.ok THEN Ok(<<c>> \o r.val) ELSE r
       IN
       IF h < 128 THEN Then(h, decode(Tail(b)))
       ELSE IF h >= 194 /\ h <= 223 /\ Len(b) >= 2 /\ b[2] >= 128 /\ b[2] <= 191
       THEN Then((h - 192) * 64 + (b[2] - 128), decode(Drop(b, 2)))
       ELSE Err("UnicodeDecodeError")

(***************************************************************************)
(* PKCS7pad and PKCS7unpad.                                                *)
(***************************************************************************)
\* PKCS7pad with the padding length computed as (-len(b)) % 8: no padding
\* at all when the length is a multiple of 8
PKCS7padNoFullBlock(b) ==
  LET l == (-Len(b)) % BlockSize IN
  b \o Rep(l, l)

PKCS7pad(b) ==
  LET l == ((-Len(b) - 1) % BlockSize) + 1 IN
  b \o Rep(l, l)

\* b[: -b[-1]]: b[-1] raises IndexError on the empty string; b[:-0] is b[:0];
\* a slice end before the start of the string is clamped to the start.
PKCS7unpad(b) ==
  IF b = <<>> THEN Err("IndexError")
  ELSE LET n == b[Len(b)] IN
       IF n = 0 THEN Ok(<<>>) ELSE Ok(Take(b, Max(0, Len(b) - n)))

(***************************************************************************)
(* hashlib.sha1 and hmac.new(key, msg, sha1): a deterministic digest of    *)
(* DigestLen bytes that depends on every byte of its input and on the      *)
(* order of the bytes.                                                     *)
(***************************************************************************)
RECURSIVE Weighted(_, _)
Weighted(b, j) == IF b = <<>> THEN 0 ELSE j * Head(b) + Weighted(Tail(b), j + 1)

sha1(b) ==
  LET s == Sum(b)
      w == Weighted(b, 1)
  IN [i \in 1..DigestLen |-> (w * i + s + 7 * Len(b) + i * i) % 256]

hmac(key, msg) == sha1(<<92>> \o key \o sha1(<<54>> \o key \o msg))

(***************************************************************************)
(* Crypto.Cipher.DES3 in CBC mode: an invertible chain over blocks of      *)
(* BlockSize bytes.  DES3.new rejects a key that is not 16 or 24 bytes     *)
(* long or whose parts repeat, and an IV that is not one block long;       *)
(* encrypt and decrypt reject data that is not block aligned.              *)
(***************************************************************************)
KeyPart(key, n) == SubSeq(key, (n - 1) * BlockSize + 1, n * BlockSize)

ValidKey(key) ==
  /\ Len(key) \in {2 * BlockSize, KeyLen}
  /\ KeyPart(key, 1) # KeyPart(key, 2)
  /\ Len(key) = KeyLen => KeyPart(key, 2) # KeyPart(key, 3)

KeyStream(key, i) ==
  LET j == ((i - 1) % BlockSize) + 1
      k3 == IF Len(key) = KeyLen THEN key[2 * BlockSize + j] ELSE key[j]
  IN (key[j] + 2 * key[BlockSize + j] + 3 * k3) % 256

CBCencrypt(key, iv, p) ==
  LET c[i \in 1..Len(p)] ==
        (p[i] + (IF i <= BlockSize THEN iv[i] ELSE c[i - BlockSize])
              + KeyStream(key, i)) % 256
  IN [i \in 1..Len(p) |-> c[i]]

CBCdecrypt(key, iv, c) ==
  [i \in 1..Len(c) |->
     (c[i] - (IF i <= BlockSize THEN iv[i] ELSE c[i - BlockSize])
           - KeyStream(key, i)) % 256]

DES3encrypt(key, iv, p) ==
  IF ~ValidKey(key) \/ Len(iv) # BlockSize \/ Len(p) % BlockSize # 0
  THEN Err("ValueError")
  ELSE Ok(CBCencrypt(key, iv, p))

DES3decrypt(key, iv, c) ==
  IF ~ValidKey(key) \/ Len(iv) # BlockSize \/ Len(c) % BlockSize # 0
  THEN Err("ValueError")
  ELSE Ok(CBCdecrypt(key, iv, c))

(***************************************************************************)
(* decrypt3DES: the Mozilla password based encryption.                     *)
(***************************************************************************)
\* lines 91-99: the key and the IV derived from the salts and the password
deriveKey(globalSalt, masterPassword, entrySalt) ==
  LET hp == sha1(globalSalt \o encode(masterPassword))
      pes == entrySalt \o Rep(0, Max(0, DigestLen - Len(entrySalt)))
      chp == sha1(hp \o entrySalt)
      k1 == hmac(chp, pes \o entrySalt)
      tk == hmac(chp, pes)
      k2 == hmac(chp, tk \o entrySalt)
      k == k1 \o k2
  IN [iv |-> Drop(k, Len(k) - BlockSize), key |-> Take(k, KeyLen)]

decrypt3DES(globalSalt, masterPassword, entrySalt, encryptedData) ==
  LET d == deriveKey(globalSalt, masterPassword, entrySalt) IN
  DES3decrypt(d.key, d.iv, encryptedData)

(***************************************************************************)
(* pyasn1: values are nodes [t, v] with t one of "seq", "oct", "oid",      *)
(* "int"; der_encode writes tag, length, content; der_decode reads one     *)
(* value and returns it with the bytes that follow it.                     *)
(***************************************************************************)
Sequence(items) == [t |-> "seq", v |-> items]
OctetString(b) == [t |-> "oct", v |-> b]
ObjectIdentifier(arcs) == [t |-> "oid", v |-> arcs]
Integer(n) == [t |-> "int", v |-> n]

TagSequence == 48
TagOctetString == 4
TagObjectIdentifier == 6
TagInteger == 2

RECURSIVE Base128(_, _)
\* the base 128 digits of n, most significant first, all but the last flagged
Base128(n, last) ==
  LET d == <<(n % 128) + (IF last THEN 0 ELSE 128)>> IN
  IF n < 128 THEN d ELSE Base128(n \div 128, FALSE) \o d

RECURSIVE OidTail(_)
OidTail(arcs) ==
  IF arcs = <<>> THEN <<>> ELSE Base128(Head(arcs), TRUE) \o OidTail(Tail(arcs))

OidContent(arcs) == <<40 * arcs[1] + arcs[2]>> \o OidTail(Drop(arcs, 2))

RECURSIVE IntContent(_)
IntContent(n) ==
  IF n < 128 THEN <<n>>
  ELSE IF n < 256 THEN <<0, n>>
  ELSE IntContent(n \div 256) \o <<n % 256>>

LengthOctets(n) ==
  IF n < 128 THEN <<n>>
  ELSE IF n < 256 THEN <<129, n>>
  ELSE <<130, n \div 256, n % 256>>

TLV(tag, content) == <<tag>> \o LengthOctets(Len(content)) \o content

RECURSIVE der_encode(_)
der_encode(x) ==
  CASE x.t = "oct" -> TLV(TagOctetString, x.v)
    [] x.t = "oid" -> TLV(TagObjectIdentifier, OidContent(x.v))
    [] x.t = "int" -> TLV(TagInteger, IntContent(x.v))
    [] x.t = "seq" ->
         LET RECURSIVE Cat(_)
             Cat(items) ==
               IF items = <<>> THEN <<>>
               ELSE der_encode(Head(items)) \o Cat(Tail(items))
         IN TLV(TagSequence, Cat(x.v))

Decoded(x, rest) == [ok |-> TRUE, val |-> x, rest |-> rest, err |-> ""]
NotDecoded == [ok |-> FALSE, val |-> <<>>, rest |-> <<>>, err |-> "PyAsn1Error"]

\* the length octets at the head of b: [ok, len, hdr]
ReadLength(b) ==
  IF b = <<>> THEN [ok |-> FALSE, len |-> 0, hdr |-> 0]
  ELSE IF b[1] < 128 THEN [ok |-> TRUE, len |-> b[1], hdr |-> 1]
  ELSE IF b[1] = 129 /\ Len(b) >= 2 THEN [ok |-> TRUE, len |-> b[2], hdr |-> 2]
  ELSE IF b[1] = 130 /\ Len(b) >= 3
       THEN [ok |-> TRUE, len |-> b[2] * 256 + b[3], hdr |-> 3]
  ELSE [ok |-> FALSE, len |-> 0, hdr |-> 0]

RECURSIVE OidArcs(_, _)
\* the arcs after the first octet; acc is the arc being read
OidArcs(b, acc) ==
  IF b = <<>> THEN <<>>
  ELSE IF Head(b) >= 128 THEN OidArcs(Tail(b), acc * 128 + (Head(b) - 128))
  ELSE <<acc * 128 + Head(b)>> \o OidArcs(Tail(b), 0)

RECURSIVE IntValue(_, _)
IntValue(b, acc) == IF b = <<>> THEN acc ELSE IntValue(Tail(b), acc * 256 + Head(b))

RECURSIVE der_decode(_)
der_decode(b) ==
  LET RECURSIVE Items(_)
      \* the values that fill c exactly: [ok, val]
      Items(c) ==
        LET Rest(h, r) == IF r.ok THEN Ok(<<h.val>> \o r.val) ELSE r
            First(h) == IF ~h.ok THEN Err(h.err) ELSE Rest(h, Items(h.rest))
        IN IF c = <<>> THEN Ok(<<>>) ELSE First(der_decode(c))
      Constructed(items, rest) ==
        IF items.ok THEN Decoded(Sequence(items.val), rest) ELSE NotDecoded
      \* the value of one tag, content being its content octets
      Value(tag, content, rest) ==
        CASE tag = TagOctetString -> Decoded(OctetString(content), rest)
          [] tag = TagObjectIdentifier ->
               IF content = <<>> \/ content[Len(content)] >= 128 \/ content[1] >= 80
               THEN NotDecoded
               ELSE Decoded(ObjectIdentifier(
                      <<content[1] \div 40, content[1] % 40>>
                        \o OidArcs(Tail(content), 0)), rest)
          [] tag = TagInteger ->
               IF content = <<>> \/ content[1] >= 128 THEN NotDecoded
               ELSE Decoded(Integer(IntValue(content, 0)), rest)
          [] tag = TagSequence -> Constructed(Items(content), rest)
          [] OTHER -> NotDecoded
      \* body is what follows the tag and the length octets l
      Body(tag, l, body) ==
        IF ~l.ok \/ Len(body) < l.len THEN NotDecoded
        ELSE Value(tag, Take(body, l.len), Drop(body, l.len))
      Header(tag, l) == Body(tag, l, Drop(b, 1 + l.hdr))
  IN IF b = <<>> THEN NotDecoded ELSE Header(b[1], ReadLength(Tail(b)))

\* x[i] of a decoded value, i counted from 0: IndexError/TypeError otherwise
HasItem(x, i) == x.t = "seq" /\ i + 1 <= Len(x.v)
Item(x, i) == x.v[i + 1]
\* .asOctets() exists on an OctetString, .asTuple() on an ObjectIdentifier
HasOctets(x) == x.t = "oct"
HasTuple(x) == x.t = "oid"

(***************************************************************************)
(* base64: the text is a sequence of symbols, 0..63 the alphabet and       *)
(* PadSymbol the character "=".                                            *)
(***************************************************************************)
PadSymbol == 64

\* three bytes make four symbols; a last group of one or two bytes is padded
b64encode(b) ==
  LET n == Len(b)
      byte(j) == IF j <= n THEN b[j] ELSE 0
      symbol(p) ==
        LET q == 3 * ((p - 1) \div 4)
            r == (p - 1) % 4
        IN CASE r = 0 -> byte(q + 1) \div 4
             [] r = 1 -> (byte(q + 1) % 4) * 16 + (byte(q + 2) \div 16)
             [] r = 2 -> IF q + 2 > n THEN PadSymbol
                         ELSE (byte(q + 2) % 16) * 4 + (byte(q + 3) \div 64)
             [] r = 3 -> IF q + 3 > n THEN PadSymbol ELSE byte(q + 3) % 64
  IN [p \in 1..(4 * ((n + 2) \div 3)) |-> symbol(p)]

\* binascii.Error unless the text is whole groups of four symbols with "="
\* only as the last one or two symbols
b64decode(t) ==
  LET n == Len(t)
      pads == IF n = 0 \/ t[n] # PadSymbol THEN 0
              ELSE IF t[n - 1] # PadSymbol THEN 1 ELSE 2
      sym(p) == IF t[p] = PadSymbol THEN 0 ELSE t[p]
      byte(i) ==
        LET q == 4 * ((i - 1) \div 3)
            r == (i - 1) % 3
        IN CASE r = 0 -> sym(q + 1) * 4 + (sym(q + 2) \div 16)
             [] r = 1 -> (sym(q + 2) % 16) * 16 + (sym(q + 3) \div 4)
             [] r = 2 -> (sym(q + 3) % 4) * 64 + sym(q + 4)
  IN
  IF n % 4 # 0 \/ (\E p \in 1..(n - pads) : t[p] = PadSymbol)
  THEN Err("binascii.Error")
  ELSE Ok([i \in 1..(3 * (n \div 4) - pads) |-> byte(i)])

(***************************************************************************)
(* decodeLoginData and encodeLoginData.  The IV that encodeLoginData draws *)
(* from secrets.token_bytes(8) is a parameter.                             *)
(***************************************************************************)
\* lines 105-109: the IV and the ciphertext of an envelope, [ok, iv, ciphertext, err]
Unwrapped(iv, ciphertext) == [ok |-> TRUE, iv |-> iv, ciphertext |-> ciphertext, err |-> ""]
NotUnwrapped(e) == [ok |-> FALSE, iv |-> <<>>, ciphertext |-> <<>>, err |-> e]

\* line 106 without its assertion
MarkerUnchecked(asn1data) == TRUE

MarkerChecked(asn1data) == Item(asn1data, 0).v = MAGIC1

AlgorithmChecked(asn1data) == Item(Item(asn1data, 1), 0).v = MAGIC2

unwrapLoginData(data) ==
  LET \* lines 106-109 on the decoded value
      Read(asn1data) ==
        IF ~(HasItem(asn1data, 0) /\ HasOctets(Item(asn1data, 0)))
        THEN NotUnwrapped("TypeError")
        ELSE IF ~MarkerChecked(asn1data) THEN NotUnwrapped("AssertionError")
        ELSE IF ~(HasItem(asn1data, 1) /\ HasItem(Item(asn1data, 1), 0)
                  /\ HasTuple(Item(Item(asn1data, 1), 0)))
        THEN NotUnwrapped("TypeError")
        ELSE IF ~AlgorithmChecked(asn1data) THEN NotUnwrapped("AssertionError")
        ELSE IF ~(HasItem(Item(asn1data, 1), 1) /\ HasOctets(Item(Item(asn1data, 1), 1)))
        THEN NotUnwrapped("TypeError")
        ELSE IF ~(HasItem(asn1data, 2) /\ HasOctets(Item(asn1data, 2)))
        THEN NotUnwrapped("TypeError")
        ELSE Unwrapped(Item(Item(asn1data, 1), 1).v, Item(asn1data, 2).v)
      \* line 105: der_decode(b64decode(data))
      Parsed(dec) == IF ~dec.ok THEN NotUnwrapped(dec.err) ELSE Read(dec.val)
      Raw(raw) == IF ~raw.ok THEN NotUnwrapped(raw.err) ELSE Parsed(der_decode(raw.val))
  IN Raw(b64decode(data))

\* line 110 and des.decrypt(ciphertext) of line 111
decryptLoginData(key, data) ==
  LET Decrypt(e) == IF ~e.ok THEN Err(e.err) ELSE DES3decrypt(key, e.iv, e.ciphertext)
  IN Decrypt(unwrapLoginData(data))

decodeLoginData(key, data) ==
  LET Unpadded(u) == IF ~u.ok THEN u ELSE decode(u.val)
      Decrypted(p) == IF ~p.ok THEN p ELSE Unpadded(PKCS7unpad(p.val))
  IN Decrypted(decryptLoginData(key, data))

\* the envelope with a zero IV written in place of the one used
wrapLoginDataZeroIV(iv, ciphertext) ==
  b64encode(der_encode(Sequence(<<
    OctetString(MAGIC1),
    Sequence(<<ObjectIdentifier(MAGIC2), OctetString(Rep(0, BlockSize))>>),
    OctetString(ciphertext)>>)))

\* lines 118-124: the envelope around an IV and a ciphertext
wrapLoginData(iv, ciphertext) ==
  b64encode(der_encode(Sequence(<<
    OctetString(MAGIC1),
    Sequence(<<ObjectIdentifier(MAGIC2), OctetString(iv)>>),
    OctetString(ciphertext)>>)))

encodeLoginData(key, data, iv) ==
  LET Wrapped(c) == IF ~c.ok THEN c ELSE Ok(wrapLoginData(iv, c.val))
  IN Wrapped(DES3encrypt(key, iv, PKCS7pad(encode(data))))

(***************************************************************************)
(* getKey.  The key database is a record: exists (key4.db is a file),      *)
(* metadata (the rows of the query of line 54, each <<item1, item2>>) and  *)
(* nssPrivate (the rows of the query of line 68, each <<a11, a102>>).      *)
(* The result carries, besides the key or the exception, what the call     *)
(* did: the clear text of the password check and whether line 68 ran.      *)
(***************************************************************************)
\* decoded[0][1][0].asOctets() and decoded[1].asOctets(), lines 58-60 and 74-76
unwrapKeyData(blob) ==
  LET no(e) == [ok |-> FALSE, entrySalt |-> <<>>, cipherT |-> <<>>, err |-> e]
      Read(d) ==
        IF ~(HasItem(d, 0) /\ HasItem(Item(d, 0), 1) /\ HasItem(Item(Item(d, 0), 1), 0)
             /\ HasOctets(Item(Item(Item(d, 0), 1), 0)))
        THEN no("TypeError")
        ELSE IF ~(HasItem(d, 1) /\ HasOctets(Item(d, 1)))
        THEN no("TypeError")
        ELSE [ok |-> TRUE, entrySalt |-> Item(Item(Item(d, 0), 1), 0).v,
              cipherT |-> Item(d, 1).v, err |-> ""]
      Parsed(dec) == IF ~dec.ok THEN no(dec.err) ELSE Read(dec.val)
  IN Parsed(der_decode(blob))

RECURSIVE scanRows(_, _)
\* lines 69-71: the value of row when the loop ends; row keeps the value it
\* had before the loop when the cursor yields nothing
scanRows(rows, row) ==
  IF rows = <<>> THEN row
  ELSE IF Head(rows)[2] = MAGIC1 THEN Head(rows)
  ELSE scanRows(Tail(rows), Head(rows))

Raised(e, clearText, scanned) ==
  [ok |-> FALSE, val |-> <<>>, err |-> e, clearText |-> clearText, scanned |-> scanned]
Returned(key, clearText) ==
  [ok |-> TRUE, val |-> key, err |-> "", clearText |-> clearText, scanned |-> TRUE]

\* line 64 without its comparison
PasswordUnchecked(clearText) == TRUE

PasswordChecked(clearText) == clearText = PasswordCheck

\* line 73 without its assertion
MarkerUnasserted(row) == TRUE

MarkerAsserted(row) == row[2] = MAGIC1

\* lines 68-78
readKey(db, masterPassword, globalSalt, metaRow, clearText) ==
  LET \* line 78
      Decrypted(key) ==
        IF ~key.ok THEN Raised(key.err, clearText, TRUE)
        ELSE Returned(Take(key.val, KeyLen), clearText)
      \* lines 74-77, u being the entry salt and the ciphertext of a11
      Decoded11(u) ==
        IF ~u.ok THEN Raised(u.err, clearText, TRUE)
        ELSE Decrypted(decrypt3DES(globalSalt, masterPassword, u.entrySalt, u.cipherT))
      \* line 73
      Scanned(row) ==
        IF ~MarkerAsserted(row) THEN Raised("AssertionError", clearText, TRUE)
        ELSE Decoded11(unwrapKeyData(row[1]))
  IN Scanned(scanRows(db.nssPrivate, metaRow))

getKey(db, masterPassword) ==
  LET \* lines 64-65
      Checked(row, clearText) ==
        IF ~clearText.ok THEN Raised(clearText.err, <<>>, FALSE)
        ELSE IF ~PasswordChecked(clearText.val)
        THEN Raised("WrongPassword", clearText.val, FALSE)
        ELSE readKey(db, masterPassword, row[1], row, clearText.val)
      \* lines 58-63, u being the entry salt and the ciphertext of item2
      Decoded2(row, u) ==
        IF ~u.ok THEN Raised(u.err, <<>>, FALSE)
        ELSE Checked(row, decrypt3DES(row[1], masterPassword, u.entrySalt, u.cipherT))
      \* lines 55-57: globalSalt is row[0], item2 is row[1]
      Row(row) == Decoded2(row, unwrapKeyData(row[2]))
  IN
  IF ~db.exists THEN Raised("NoDatabase", <<>>, FALSE)
  ELSE IF db.metadata = <<>> THEN Raised("StopIteration", <<>>, FALSE)
  ELSE Row(Head(db.metadata))

(***************************************************************************)
(* The credential document: jsonLogins is a record with the keys "logins"  *)
(* (a sequence of rows) and "nextId".  A login is a record with the keys   *)
(* hostname, login and password.                                           *)
(***************************************************************************)
Range(f) == {f[i] : i \in DOMAIN f}

\* lines 147-152: the value of one field of one row
exportField(key, row, field) ==
  IF field = "password" THEN decodeLoginData(key, row.encryptedPassword)
  ELSE IF field = "login" THEN decodeLoginData(key, row.encryptedUsername)
  ELSE IF field \in DOMAIN row THEN Ok(row[field])
  ELSE Err("KeyError")

\* lines 145-153: the dictionary built for one row
exportRow(key, row, fields) ==
  LET \* blank maps each field to its value or to the exception it raised;
      \* the first field that raised ends the export
      Built(blank, bad) ==
        IF bad # {}
        THEN Err(blank[fields[CHOOSE i \in bad : \A j \in bad : i <= j]].err)
        ELSE Ok([f \in Range(fields) |-> blank[f].val])
      Fields(blank) == Built(blank, {i \in DOMAIN fields : ~blank[fields[i]].ok})
  IN Fields([f \in Range(fields) |-> exportField(key, row, f)])

RECURSIVE exportRows(_, _, _)
exportRows(key, rows, fields) ==
  IF rows = <<>> THEN Ok(<<>>)
  ELSE LET Rest(h, r) == IF r.ok THEN Ok(<<h.val>> \o r.val) ELSE r
           First(h) == IF ~h.ok THEN h ELSE Rest(h, exportRows(key, Tail(rows), fields))
       IN First(exportRow(key, Head(rows), fields))

exportLogins(key, jsonLogins, fields) ==
  IF "logins" \notin DOMAIN jsonLogins THEN Ok(<<>>)
  ELSE exportRows(key, jsonLogins.logins, fields)

\* list.index: the first position (from 0) of x in l, ValueError when absent
index(l, x) ==
  LET at == {i \in DOMAIN l : l[i] = x} IN
  IF at = {} THEN Err("ValueError")
  ELSE Ok((CHOOSE i \in at : \A j \in at : i <= j) - 1)

\* getLogin that compares the hostname alone
getLoginByHostname(url, login, password, key, jsonLogins) ==
  LET Index(logins) ==
        IF ~logins.ok THEN logins
        ELSE index(logins.val, [f \in {"hostname"} |-> url])
  IN Index(exportLogins(key, jsonLogins, <<"hostname">>))

getLogin(url, login, password, key, jsonLogins) ==
  LET Index(logins) ==
        IF ~logins.ok THEN logins
        ELSE index(logins.val, [hostname |-> url, login |-> login, password |-> password])
  IN Index(exportLogins(key, jsonLogins, <<"hostname", "login", "password">>))

\* the result of a mutation: the document after it, and the exception if any
Mutated(doc) == [ok |-> TRUE, doc |-> doc, err |-> ""]
NotMutated(doc, e) == [ok |-> FALSE, doc |-> doc, err |-> e]

\* del l[i], i counted from 0
Deleted(l, i) == SubSeq(l, 1, i) \o SubSeq(l, i + 2, Len(l))

\* addNewLogin that puts the new row first
addNewLoginFirst(key, jsonLogins, login, ivUsername, ivPassword, guid, timestamp) ==
  LET entry(encryptedUsername, encryptedPassword) ==
        [id |-> jsonLogins.nextId,
         hostname |-> login.hostname,
         httpRealm |-> "None",
         formSubmitURL |-> "",
         usernameField |-> "",
         passwordField |-> "",
         encryptedUsername |-> encryptedUsername.val,
         encryptedPassword |-> encryptedPassword.val,
         guid |-> guid,
         encType |-> 1,
         timeCreated |-> timestamp,
         timeLastUsed |-> timestamp,
         timePasswordChanged |-> timestamp,
         timesUsed |-> 0]
  IN
  IF "logins" \notin DOMAIN jsonLogins THEN NotMutated(jsonLogins, "KeyError")
  ELSE Mutated([jsonLogins EXCEPT
                  !.logins = <<entry(encodeLoginData(key, login.login, ivUsername),
                                     encodeLoginData(key, login.password, ivPassword))>> \o @,
                  !.nextId = @ + 1])

\* ivUsername and ivPassword are the IVs of the two calls of encodeLoginData,
\* guid is uuid4() and timestamp the clock
addNewLogin(key, jsonLogins, login, ivUsername, ivPassword, guid, timestamp) ==
  LET entry(nextId, encryptedUsername, encryptedPassword) ==
        [id |-> nextId,
         hostname |-> login.hostname,
         httpRealm |-> "None",
         formSubmitURL |-> "",
         usernameField |-> "",
         passwordField |-> "",
         encryptedUsername |-> encryptedUsername,
         encryptedPassword |-> encryptedPassword,
         guid |-> guid,
         encType |-> 1,
         timeCreated |-> timestamp,
         timeLastUsed |-> timestamp,
         timePasswordChanged |-> timestamp,
         timesUsed |-> 0]
      \* lines 199-200 once the two fields are encrypted
      Append1(encryptedUsername, encryptedPassword) ==
        IF ~encryptedUsername.ok THEN NotMutated(jsonLogins, encryptedUsername.err)
        ELSE IF ~encryptedPassword.ok THEN NotMutated(jsonLogins, encryptedPassword.err)
        ELSE IF "logins" \notin DOMAIN jsonLogins THEN NotMutated(jsonLogins, "KeyError")
        ELSE Mutated([jsonLogins EXCEPT
                        !.logins = Append(@, entry(jsonLogins.nextId, encryptedUsername.val,
                                                   encryptedPassword.val)),
                        !.nextId = @ + 1])
  IN
  IF "nextId" \notin DOMAIN jsonLogins THEN NotMutated(jsonLogins, "KeyError")
  ELSE Append1(encodeLoginData(key, login.login, ivUsername),
               encodeLoginData(key, login.password, ivPassword))

\* delNewLogin that leaves nextId as it is
delNewLoginKeepsNextId(key, jsonLogins, login) ==
  LET Delete(replace_index) ==
        IF ~replace_index.ok THEN NotMutated(jsonLogins, replace_index.err)
        ELSE Mutated([jsonLogins EXCEPT !.logins = Deleted(@, replace_index.val)])
  IN Delete(getLogin(login.hostname, login.login, login.password, key, jsonLogins))

delNewLogin(key, jsonLogins, login) ==
  LET Delete(replace_index) ==
        IF ~replace_index.ok THEN NotMutated(jsonLogins, replace_index.err)
        ELSE Mutated([jsonLogins EXCEPT !.logins = Deleted(@, replace_index.val),
                                        !.nextId = @ - 1])
  IN Delete(getLogin(login.hostname, login.login, login.password, key, jsonLogins))

(***************************************************************************)
(* The values the operations are exercised on.                             *)
(***************************************************************************)
\* the number of rows of the document the store specification grows to
MaxLogins == 2
\* the longest string of the codec specification
MaxStrLen == 17
\* the number of rows of the private key table
MaxRows == 2
\* the failed attempts the retry loop is counted up to
MaxAttempts == 3

Key1 == [i \in 1..KeyLen |-> i]
Key2 == [i \in 1..KeyLen |-> (7 * i * i + 3) % 256]
Keys == {Key1, Key2}

IV1 == Rep(0, BlockSize)
IV2 == [i \in 1..BlockSize |-> (31 * i + 200) % 256]
IVs == {IV1, IV2}
\* the IVs of the two fields of one new row
IVPairs == {<<IV1, IV2>>, <<IV2, IV2>>}

\* "al", "pw", "12345678", "zo" with e acute in the middle, ""
Login1 == [hostname |-> "https://a.example", login |-> <<97, 108>>,
           password |-> <<112, 119>>]
Login2 == [hostname |-> "https://a.example", login |-> <<97, 108>>,
           password |-> <<49, 50, 51, 52, 53, 54, 55, 56>>]
Login3 == [hostname |-> "https://b.example", login |-> <<122, 233, 111>>,
           password |-> <<>>]
Logins == {Login1, Login2, Login3}
\* the logins that are added; Login3 is only ever looked for
AddedLogins == {Login1, Login2}

Guids == {"{00000000-0000-4000-8000-000000000000}"}
Timestamps == {1000}

EmptyDocument == [logins |-> <<>>, nextId |-> 1]
\* a document without the key "logins"
BareDocument == [nextId |-> 1]
Documents == {EmptyDocument, BareDocument}

VARIABLES
  key,        \* the master key of the session
  jsonLogins, \* the credential document
  last,       \* the last mutation: its arguments, its outcome, the document before it
  cs,         \* codec: the string given to encodeLoginData or PKCS7pad
  cdata,      \* codec: the envelope given to decodeLoginData
  csrc,       \* codec: how cdata was made
  cplain,     \* codec: what des.decrypt returned in decodeLoginData
  cout,       \* codec: what decodeLoginData returned or raised
  cpad,       \* codec: what PKCS7pad returned
  cpc,        \* codec: the step reached
  db,         \* the key database
  password,   \* askpass: the candidate password
  kres,       \* askpass: the outcome of the last call of getKey
  kpc,        \* askpass: the position in the loop
  attempts    \* askpass: the calls of getKey that raised WrongPassword, up to MaxAttempts

storeVars == <<key, jsonLogins, last>>
codecVars == <<cs, cdata, csrc, cplain, cout, cpad, cpc>>
keyVars == <<db, password, kres, kpc, attempts>>
vars == <<key, jsonLogins, last, cs, cdata, csrc, cplain, cout, cpad, cpc,
          db, password, kres, kpc, attempts>>

NoSource == [made |-> "none", shape |-> "", marker |-> <<>>, oid |-> <<>>]
NoDb == [exists |-> FALSE, metadata |-> <<>>, nssPrivate |-> <<>>]
NoResult == Raised("", <<>>, FALSE)

(***************************************************************************)
(* The store specification: addNewLogin and delNewLogin on one document.   *)
(***************************************************************************)
Count(doc) == IF "logins" \in DOMAIN doc THEN Len(doc.logins) ELSE 0

\* the login is the credential of the row: its hostname, and its username
\* and password once decrypted
Holds(k, row, login) ==
  /\ row.hostname = login.hostname
  /\ decodeLoginData(k, row.encryptedUsername) = Ok(login.login)
  /\ decodeLoginData(k, row.encryptedPassword) = Ok(login.password)

\* the positions of the rows that hold the login
Held(k, doc, login) == {i \in 1..Count(doc) : Holds(k, doc.logins[i], login)}

\* the record of a mutation: the call, its outcome, and the document before
\* it: nextId, the number of rows, the number of rows that held the login, the
\* whole document when the call raised.  round tells a delNewLogin that
\* directly follows an addNewLogin of the same login, with nextId and the
\* number of rows before that addNewLogin.
Done(op, login, r) ==
  [op |-> op, login |-> login, ok |-> r.ok, err |-> r.err,
   nextId |-> jsonLogins.nextId, count |-> Count(jsonLogins),
   held |-> Cardinality(Held(key, jsonLogins, login)),
   before |-> IF r.ok THEN <<>> ELSE <<jsonLogins>>,
   round |-> IF op = "del" /\ last.op = "add" /\ last.ok /\ last.login = login
             THEN <<last.nextId, last.count>> ELSE <<>>]

AddNewLogin ==
  \E login \in AddedLogins, iv \in IVPairs, guid \in Guids, timestamp \in Timestamps :
    LET r == addNewLogin(key, jsonLogins, login, iv[1], iv[2], guid, timestamp)
    IN /\ Count(jsonLogins) < MaxLogins
       /\ jsonLogins' = r.doc
       /\ last' = Done("add", login, r)
       /\ UNCHANGED <<key, codecVars, keyVars>>

DelNewLogin ==
  \E login \in Logins :
    LET r == delNewLogin(key, jsonLogins, login)
    IN /\ jsonLogins' = r.doc
       /\ last' = Done("del", login, r)
       /\ UNCHANGED <<key, codecVars, keyVars>>

\* a session key and a document just read; the codec and askpass are not used
Init ==
  /\ key = Key1
  /\ jsonLogins \in Documents
  /\ last = [op |-> "none"]
  /\ cs = <<>> /\ cdata = <<>> /\ csrc = NoSource /\ cplain = Err("") /\ cout = Err("")
  /\ cpad = <<>> /\ cpc = "idle"
  /\ db = NoDb /\ password = <<>> /\ kres = NoResult /\ kpc = "idle" /\ attempts = 0
Next == AddNewLogin \/ DelNewLogin
Spec == Init /\ [][Next]_vars

\* the export of the document with the fields hostname, login, password
Exported == exportLogins(key, jsonLogins, <<"hostname", "login", "password">>)

\* C1: every row of the document has an identifier that no other row has and
\* that is less than nextId
C1_IdsUniqueBelowNextId ==
  \A i \in 1..Count(jsonLogins) :
    /\ jsonLogins.logins[i].id < jsonLogins.nextId
    /\ \A j \in 1..Count(jsonLogins) :
         i # j => jsonLogins.logins[i].id # jsonLogins.logins[j].id

\* C2: delNewLogin directly after addNewLogin with the same login succeeds,
\* restores nextId to its value before the addNewLogin and leaves as many rows
\* as there were before the addNewLogin, one fewer than after it
C2_AddThenRemoveRestores ==
  (last.op = "del" /\ last.round # <<>>) =>
    /\ last.ok
    /\ jsonLogins.nextId = last.round[1]
    /\ Count(jsonLogins) = last.round[2]
    /\ Count(jsonLogins) = last.count - 1

C2_Witness ==
  /\ last.op = "del" /\ last.round # <<>> /\ last.ok
  /\ last.held >= 2
  /\ Count(jsonLogins) >= 1

\* C3 as claimed: after addNewLogin the export has exactly one row equal to
\* the login, the new row's id is nextId as it was, and nextId is one more
C3_ExactlyOneRow ==
  (last.op = "add" /\ last.ok) =>
    LET rows == Exported IN
    /\ rows.ok
    /\ Cardinality({i \in DOMAIN rows.val : rows.val[i] = last.login}) = 1
    /\ jsonLogins.logins[Count(jsonLogins)].id = last.nextId
    /\ jsonLogins.nextId = last.nextId + 1

\* C3 amended: after addNewLogin the export has one row more than the
\* document had rows, its last row equals the login, the rows equal to the
\* login are one more than the rows that held it before (exactly one when
\* none did), the new row's id is nextId as it was, and nextId is one more
C3_NewRowExported ==
  (last.op = "add" /\ last.ok) =>
    LET rows == Exported IN
    /\ rows.ok
    /\ Len(rows.val) = last.count + 1
    /\ rows.val[Len(rows.val)] = last.login
    /\ Cardinality({i \in DOMAIN rows.val : rows.val[i] = last.login}) = last.held + 1
    /\ jsonLogins.logins[Count(jsonLogins)].id = last.nextId
    /\ jsonLogins.nextId = last.nextId + 1

C3_Witness ==
  /\ last.op = "add" /\ last.ok /\ last.held = 1
  /\ LET rows == Exported IN rows.ok /\ rows.val[Len(rows.val)] = last.login

\* C4: delNewLogin with a login that no row holds raises and leaves the
\* document as it was
C4_NoMatchNoMutation ==
  (last.op = "del" /\ last.held = 0) =>
    /\ ~last.ok
    /\ last.before = <<jsonLogins>>

C4_Witness ==
  /\ last.op = "del" /\ last.held = 0 /\ ~last.ok
  /\ Count(jsonLogins) >= 1

(***************************************************************************)
(* The codec specification: PKCS7pad, encodeLoginData and decodeLoginData  *)
(* applied to strings, and decodeLoginData applied to envelopes that were  *)
(* not written by encodeLoginData.                                         *)
(***************************************************************************)
\* "a" * n and a few strings with characters of two bytes
Strings ==
  {Rep(97, n) : n \in 0..MaxStrLen}
    \cup {<<233>>, <<97, 233, 98>>, <<1085, 1077, 1090>>, <<97, 98, 99, 100, 101, 102, 233>>}

\* markers and algorithm identifiers an envelope may carry
Markers == {MAGIC1, [MAGIC1 EXCEPT ![16] = 2], Take(MAGIC1, 15), <<>>}
Algorithms == {MAGIC2, <<1, 2, 840, 113549, 3, 2>>, <<1, 2, 840, 113549, 1, 12, 5, 1, 3>>}

\* block data that did not come out of PKCS7pad: the last byte is the pad length
\* PKCS7unpad reads
RawBlocks ==
  {<<97, 98, 99, 100, 101, 102, 103, n>> : n \in {0, 1, 5, 8, 9, 16, 255}}
    \cup {<<97, 98, 99, 100, 101, 102, 103, 104, 105, 106, 107, 108, 109, 110, 111, n>> :
            n \in {0, 8, 9, 16, 17}}
    \cup {<<>>}

\* the values an envelope is made of, by shape: "field" is the shape
\* encodeLoginData writes, "extra" has a fourth item after it, the others lack
\* an item that decodeLoginData reads or have it with another type
Shaped(shape, marker, oid, iv, ciphertext) ==
  CASE shape = "field" ->
         Sequence(<<OctetString(marker),
                    Sequence(<<ObjectIdentifier(oid), OctetString(iv)>>),
                    OctetString(ciphertext)>>)
    [] shape = "extra" ->
         Sequence(<<OctetString(marker),
                    Sequence(<<ObjectIdentifier(oid), OctetString(iv)>>),
                    OctetString(ciphertext), Integer(1)>>)
    [] shape = "short" ->
         Sequence(<<OctetString(marker),
                    Sequence(<<ObjectIdentifier(oid), OctetString(iv)>>)>>)
    [] shape = "flat" ->
         Sequence(<<OctetString(marker), ObjectIdentifier(oid), OctetString(ciphertext)>>)
    [] shape = "swapped" ->
         Sequence(<<OctetString(marker),
                    Sequence(<<OctetString(iv), ObjectIdentifier(oid)>>),
                    OctetString(ciphertext)>>)
    [] shape = "noiv" ->
         Sequence(<<OctetString(marker), Sequence(<<ObjectIdentifier(oid)>>),
                    OctetString(ciphertext)>>)
    [] shape = "key" ->
         Sequence(<<Sequence(<<ObjectIdentifier(oid),
                               Sequence(<<OctetString(iv), Integer(1)>>)>>),
                    OctetString(ciphertext)>>)
    [] shape = "octets" -> OctetString(ciphertext)

Shapes == {"field", "extra", "short", "flat", "swapped", "noiv", "key", "octets"}

\* ways of damaging the text or the bytes of an envelope
Damages == {"none", "cut symbol", "cut group", "cut bytes", "not DER", "empty"}

Damaged(damage, x) ==
  LET bytes == der_encode(x)
      text == b64encode(bytes)
  IN CASE damage = "none" -> text
       [] damage = "cut symbol" -> Take(text, Len(text) - 1)
       [] damage = "cut group" -> Take(text, Len(text) - 4)
       [] damage = "cut bytes" -> b64encode(Take(bytes, Len(bytes) - 2))
       [] damage = "not DER" -> b64encode(<<255>> \o bytes)
       [] damage = "empty" -> <<>>

\* how an envelope is made: as encodeLoginData makes it, or with one deviation
Genuine == [made |-> "none", shape |-> "field", marker |-> MAGIC1, oid |-> MAGIC2]
Forgeries ==
  {[Genuine EXCEPT !.shape = x] : x \in Shapes}
    \cup {[Genuine EXCEPT !.marker = x] : x \in Markers}
    \cup {[Genuine EXCEPT !.oid = x] : x \in Algorithms}
    \cup {[Genuine EXCEPT !.made = x] : x \in Damages}

CodecInit ==
  /\ key \in Keys
  /\ cs \in Strings
  /\ cdata = <<>> /\ csrc = NoSource /\ cplain = Err("") /\ cout = Err("")
  /\ cpad = <<>> /\ cpc = "start"
  /\ jsonLogins = EmptyDocument /\ last = [op |-> "none"]
  /\ db = NoDb /\ password = <<>> /\ kres = NoResult /\ kpc = "idle" /\ attempts = 0

\* PKCS7pad(data.encode())
Pad ==
  /\ cpc = "start"
  /\ cpad' = PKCS7pad(encode(cs))
  /\ cpc' = "padded"
  /\ UNCHANGED <<key, cs, cdata, csrc, cplain, cout, storeVars, keyVars>>

\* encodeLoginData(key, cs), the IV being any of IVs
Encode ==
  \E iv \in IVs :
    LET r == encodeLoginData(key, cs, iv) IN
    /\ cpc = "start"
    /\ r.ok
    /\ cdata' = r.val
    /\ csrc' = [Genuine EXCEPT !.made = "encoded"]
    /\ cpc' = "encoded"
    /\ UNCHANGED <<key, cs, cplain, cout, cpad, storeVars, keyVars>>

\* an envelope from elsewhere: made with one deviation around cs padded, or
\* made as encodeLoginData makes it around block data that PKCS7pad did not pad
Forge ==
  \E f \in Forgeries, iv \in IVs, raw \in RawBlocks \cup {PKCS7pad(encode(cs))} :
    /\ cpc = "start"
    /\ raw = PKCS7pad(encode(cs)) \/ f = Genuine
    /\ cdata' = Damaged(f.made, Shaped(f.shape, f.marker, f.oid, iv,
                                       CBCencrypt(key, iv, raw)))
    /\ csrc' = IF raw = PKCS7pad(encode(cs)) THEN f ELSE [f EXCEPT !.made = "raw"]
    /\ cpc' = "forged"
    /\ UNCHANGED <<key, cs, cplain, cout, cpad, storeVars, keyVars>>

\* decodeLoginData(key, cdata)
Decode ==
  /\ cpc \in {"encoded", "forged"}
  /\ cplain' = decryptLoginData(key, cdata)
  /\ cout' = decodeLoginData(key, cdata)
  /\ cpc' = "decoded"
  /\ UNCHANGED <<key, cs, cdata, csrc, cpad, storeVars, keyVars>>

CodecNext == Pad \/ Encode \/ Forge \/ Decode
CodecSpec == CodecInit /\ [][CodecNext]_vars

\* the last byte of the block data that decodeLoginData decrypted
PadByte == cplain.val[Len(cplain.val)]

\* C5: PKCS7pad appends n bytes of value n, 1 <= n <= 8, and the padded length
\* is the least multiple of 8 above the length: a whole block when the length
\* is a multiple of 8
C5_PadToNextBlock ==
  cpc = "padded" =>
    LET b == encode(cs)
        n == Len(cpad) - Len(b)
    IN /\ n \in 1..8
       /\ Take(cpad, Len(b)) = b
       /\ \A i \in (Len(b) + 1)..Len(cpad) : cpad[i] = n
       /\ Len(cpad) % 8 = 0
       /\ Len(cpad) > Len(b) /\ Len(cpad) - 8 <= Len(b)
       /\ Len(b) % 8 = 0 => Len(cpad) = Len(b) + 8

C5_Witness ==
  /\ cpc = "padded"
  /\ Len(encode(cs)) = 8
  /\ cpad = encode(cs) \o <<8, 8, 8, 8, 8, 8, 8, 8>>

\* C6: when the last byte of the decrypted block data is 0 or more than 8,
\* decodeLoginData raises and returns no plaintext
C6_BadPadByteRaises ==
  (cpc = "decoded" /\ cplain.ok /\ cplain.val # <<>> /\ PadByte \notin 1..8) => ~cout.ok

\* C7: decodeLoginData returns the string that encodeLoginData was given,
\* under the same key, whatever the IV
C7_RoundTrip ==
  (cpc = "decoded" /\ csrc.made = "encoded") => cout = Ok(cs)

C7_Witness ==
  /\ cpc = "decoded" /\ csrc.made = "encoded"
  /\ Len(cs) = 16
  /\ Len(cplain.val) = 24
  /\ cout = Ok(cs)

\* the shapes that lack an item decodeLoginData reads, or have it with another type
MalformedShapes == {"short", "flat", "swapped", "noiv", "key", "octets"}
\* the damages after which the text is not base64 or the bytes are not DER
Unreadable == {"cut symbol", "cut group", "cut bytes", "not DER", "empty"}

\* C10: decodeLoginData raises, before any decryption, on an envelope whose
\* marker or algorithm identifier is not the expected one or that does not
\* decode to the items of a credential field; it returns no plaintext for it
C10_MalformedEnvelopeRaises ==
  (/\ cpc = "decoded"
   /\ csrc.made # "encoded"
   /\ \/ csrc.marker # MAGIC1
      \/ csrc.oid # MAGIC2
      \/ csrc.shape \in MalformedShapes
      \/ csrc.made \in Unreadable)
    => /\ ~cout.ok /\ cout.val = <<>> /\ cout.err # ""
       /\ ~cplain.ok

C10_Witness ==
  /\ cpc = "decoded"
  /\ csrc.marker = [MAGIC1 EXCEPT ![16] = 2]
  /\ cs # <<>>
  /\ ~cout.ok /\ cout.err = "AssertionError"

(***************************************************************************)
(* The key specification: askpass over getKey on a key database.           *)
(***************************************************************************)
GlobalSalt == [i \in 1..DigestLen |-> (13 * i + 5) % 256]
CheckSalt == [i \in 1..DigestLen |-> (29 * i + 1) % 256]
KeySalt == [i \in 1..DigestLen |-> (3 * i * i + 11) % 256]
\* pbeWithSha1AndTripleDES-CBC, the algorithm identifier of a key record
PBE == <<1, 2, 840, 113549, 1, 12, 5, 1, 3>>
\* a value of the column a102 that is not the marker
OtherMarker == [MAGIC1 EXCEPT ![16] = 2]

\* "", "a", "hunter"
Passwords == {<<>>, <<97>>, <<104, 117, 110, 116, 101, 114>>}

\* the key record the store writes: clear encrypted under the key derived
\* from the password
keyData(globalSalt, masterPassword, entrySalt, clear) ==
  LET d == deriveKey(globalSalt, masterPassword, entrySalt) IN
  der_encode(Sequence(<<
    Sequence(<<ObjectIdentifier(PBE),
               Sequence(<<OctetString(entrySalt), Integer(1)>>)>>),
    OctetString(CBCencrypt(d.key, d.iv, clear))>>))

\* the row of nssPrivate that holds the master key k
KeyRow(masterPassword, k, a102) ==
  <<keyData(GlobalSalt, masterPassword, KeySalt, PKCS7pad(k)), a102>>

PrivateRows(masterPassword) ==
  {KeyRow(masterPassword, k, a102) : k \in Keys, a102 \in {MAGIC1, OtherMarker}}
    \cup {<<<<48, 0>>, MAGIC1>>}

RECURSIVE SeqsUpTo(_, _)
SeqsUpTo(S, n) ==
  IF n = 0 THEN {<<>>}
  ELSE SeqsUpTo(S, n - 1)
         \cup {Append(q, x) : q \in {r \in SeqsUpTo(S, n - 1) : Len(r) = n - 1}, x \in S}

\* a database whose master password is pw
Database(pw, rows) ==
  [exists |-> TRUE,
   metadata |-> <<<<GlobalSalt, keyData(GlobalSalt, pw, CheckSalt, PasswordCheck)>>>>,
   nssPrivate |-> rows]

Databases ==
  UNION {{Database(pw, rows) : rows \in SeqsUpTo(PrivateRows(pw), MaxRows)} :
           pw \in {<<>>, <<97>>}}
    \cup {NoDb, [exists |-> TRUE, metadata |-> <<>>, nssPrivate |-> <<>>]}

KeyInit ==
  /\ db \in Databases
  /\ password = <<>>
  /\ kres = NoResult
  /\ kpc = "call"
  /\ attempts = 0
  /\ key = Key1 /\ jsonLogins = EmptyDocument /\ last = [op |-> "none"]
  /\ cs = <<>> /\ cdata = <<>> /\ csrc = NoSource /\ cplain = Err("") /\ cout = Err("")
  /\ cpad = <<>> /\ cpc = "idle"

\* line 249 and the exception handling of lines 250-253
GetKey ==
  LET r == getKey(db, password) IN
  /\ kpc = "call"
  /\ kres' = r
  /\ kpc' = IF r.ok THEN "return" ELSE IF r.err = "WrongPassword" THEN "prompt" ELSE "raise"
  /\ attempts' = IF r.err = "WrongPassword" THEN Min(attempts + 1, MaxAttempts) ELSE attempts
  /\ UNCHANGED <<db, password, key, storeVars, codecVars>>

\* line 251
Getpass ==
  \E pw \in Passwords :
    /\ kpc = "prompt"
    /\ password' = pw
    /\ kpc' = "call"
    /\ UNCHANGED <<db, kres, attempts, key, storeVars, codecVars>>

KeyNext == GetKey \/ Getpass
KeySpec == KeyInit /\ [][KeyNext]_vars

\* the rows of the private key table whose second column is the marker
MarkedRows == {i \in DOMAIN db.nssPrivate : db.nssPrivate[i][2] = MAGIC1}
FirstMarkedRow == db.nssPrivate[CHOOSE i \in MarkedRows : \A j \in MarkedRows : i <= j]

\* the call of getKey that kres is the outcome of passed the password check
CheckPassed == kres.clearText = PasswordCheck
\* ... or decrypted the check value to something else
CheckFailed == kres.clearText # <<>> /\ kres.clearText # PasswordCheck

\* C8, in every state: askpass returns only the key of a call that decrypted
\* the check value to the known plaintext; a call that decrypted it to
\* anything else raised WrongPassword without reading the private key table,
\* and askpass then prompts, however many calls have failed
C8_Verified ==
  /\ kpc = "return" => (CheckPassed /\ kres.ok /\ Len(kres.val) = KeyLen)
  /\ CheckFailed => (~kres.ok /\ kres.err = "WrongPassword" /\ ~kres.scanned
                     /\ kres.val = <<>> /\ kpc \in {"prompt", "call"})
  /\ kres.err = "WrongPassword" => CheckFailed
  /\ kpc = "prompt" => (CheckFailed /\ attempts >= 1 /\ ENABLED Getpass)

\* C8, in every step: after the prompt getKey is called again, with the
\* password that was entered
C8_Retried ==
  /\ kpc = "prompt" => (kpc' = "call" /\ password' \in Passwords)
  /\ (kpc = "call" /\ kpc' = "prompt") => (kres'.err = "WrongPassword" /\ ~kres'.ok)
  /\ kpc \in {"return", "raise"} => UNCHANGED kpc

\* C8: the interactive verification loop
C8_RetryLoop == []C8_Verified /\ [][C8_Retried]_vars

C8_Witness ==
  /\ kpc = "return"
  /\ attempts = MaxAttempts
  /\ password # <<>>
  /\ CheckPassed /\ kres.ok

\* C9: after the password check has passed, getKey raises and returns no key
\* when no row of the private key table has the marker in its second column,
\* the empty table included; otherwise the key is the one held by the first
\* such row
C9_MarkedRowOrError ==
  (kpc \in {"return", "raise"} /\ CheckPassed) =>
    /\ MarkedRows = {} => (~kres.ok /\ kres.err # "" /\ kres.val = <<>> /\ kpc = "raise")
    /\ MarkedRows # {} =>
         \A k \in Keys :
           FirstMarkedRow = KeyRow(password, k, MAGIC1) => (kres.ok /\ kres.val = k)

C9_Witness ==
  /\ kpc = "raise" /\ CheckPassed
  /\ MarkedRows = {}
  /\ Len(db.nssPrivate) = MaxRows
  /\ kres.err = "AssertionError"

====
